---- MODULE Spec2Model ----
(***************************************************************************)
(* The test-extraction pipeline of lesson_6.py (structured output) and     *)
(* lesson_1.py: list_files, find_test_lines, extract_test_methods,         *)
(* analyze_test_with_agent and main.                                        *)
(* Further: the find_files tool of lesson_3.py and the interactive menu    *)
(* loop of main in lesson_2.py and lesson_3.py.                            *)
(*                                                                          *)
(* Text is modelled as a sequence of tokens.  A token is a run of          *)
(* characters that the regular expressions of the code treat as a unit:    *)
(*   "public" "Public"  an access modifier, lower case / any other case    *)
(*   "test"   "Test"    the letters t-e-s-t, lower case / capitalised      *)
(*   "w"                one word character (\w) that is none of the above  *)
(*   "1" "2" ...        a decimal numeral (word characters as well)        *)
(*   " "                white space (\s)                                   *)
(*   "("  "@"  ":"      themselves ("@" also stands for any other          *)
(*                      character that is neither \w nor \s)               *)
(* Concatenating the tokens of a sequence gives the text it stands for.    *)
(***************************************************************************)
EXTENDS Integers, Sequences, FiniteSets, TLC

\* ------------------------------------------------------------------ bounds
MaxLineLen == 5
MaxFiles == 2
MaxRepoLines == 4
MaxFileLen == 22
MaxEntries == 2
MaxInputs == 4

\* ------------------------------------------------------- program constants
DemoLimit == 3
WindowSize == 20

\* ------------------------------------------------------------------ tokens
Numerals == << "1", "2", "3", "4", "5", "6", "7", "8", "9", "10", "11", "12",
               "13", "14", "15", "16", "17", "18", "19", "20", "21", "22",
               "23", "24", "25" >>

NumeralSet == {Numerals[n] : n \in 1..Len(Numerals)}

IsNumeral(t) == t \in NumeralSet

ModifierTokens == {"public", "private", "protected"}

\* str.lower() of one token
Lower(t) == CASE t = "Public" -> "public"
              [] t = "Test" -> "test"
              [] OTHER -> t

\* \w
IsWord(t) == t \in {"public", "Public", "private", "protected", "test", "Test", "w"}
             \/ IsNumeral(t)

\* \s
IsSpace(t) == t = " "

\* The tokens a line of source text is drawn from.
Alphabet == {"public", "Public", "test", "Test", "w", " ", "(", "@"}

RECURSIVE SeqsUpTo(_)
SeqsUpTo(n) == IF n = 0 THEN {<<>>}
               ELSE LET S == SeqsUpTo(n - 1)
                    IN  S \cup {Append(s, t) : s \in {x \in S : Len(x) = n - 1}, t \in Alphabet}

\* ------------------------------------------------------ regular expressions
\* End of the maximal run of word tokens that starts at i (i - 1 when s[i] is no word token).
RECURSIVE WordRunEnd(_, _)
WordRunEnd(s, i) == IF i <= Len(s) /\ IsWord(s[i]) THEN WordRunEnd(s, i + 1) ELSE i - 1

\* \s*\( matched at position i
RECURSIVE SpacesThenParen(_, _)
SpacesThenParen(s, i) == IF i > Len(s) THEN FALSE
                         ELSE IF s[i] = "(" THEN TRUE
                         ELSE IF IsSpace(s[i]) THEN SpacesThenParen(s, i + 1)
                         ELSE FALSE

\* test\w+ matched at position i under re.IGNORECASE: the end of the match, 0 for no match.
\* \w+ is greedy, so the match runs to the end of the word run.
TestWordAt(s, i) == IF i < Len(s) /\ Lower(s[i]) = "test" /\ IsWord(s[i + 1])
                    THEN WordRunEnd(s, i + 1) ELSE 0

\* test\w+\s*\( matched somewhere at or after position i (re.IGNORECASE)
RECURSIVE TestCallFrom(_, _)
TestCallFrom(s, i) == IF i > Len(s) THEN FALSE
                      ELSE IF TestWordAt(s, i) > 0 /\ SpacesThenParen(s, TestWordAt(s, i) + 1) THEN TRUE
                      ELSE TestCallFrom(s, i + 1)

\* re.search(r'(public|private|protected).*test\w+\s*\(', line, re.IGNORECASE), scanning from i
RECURSIVE SearchTestMethodMutCaseSensitive(_, _)
SearchTestMethodMutCaseSensitive(s, i) == IF i > Len(s) THEN FALSE
                      ELSE IF s[i] \in ModifierTokens /\ TestCallFrom(s, i + 1) THEN TRUE
                      ELSE SearchTestMethodMutCaseSensitive(s, i + 1)

RECURSIVE SearchTestMethod(_, _)
SearchTestMethod(s, i) == IF i > Len(s) THEN FALSE
                      ELSE IF Lower(s[i]) \in ModifierTokens /\ TestCallFrom(s, i + 1) THEN TRUE
                      ELSE SearchTestMethod(s, i + 1)

\* '@Test' in s
HasAnnotation(s) == \E i \in 1..(Len(s) - 1) : s[i] = "@" /\ s[i + 1] = "Test"

\* The condition of line 50.
IsTestMethodLine(line) == SearchTestMethod(line, 1) \/ HasAnnotation(line)

\* extract_test_methods(test_lines)
RECURSIVE extract_test_methods(_)
extract_test_methods(test_lines) ==
    IF test_lines = <<>> THEN <<>>
    ELSE IF IsTestMethodLine(Head(test_lines))
         THEN <<Head(test_lines)>> \o extract_test_methods(Tail(test_lines))
         ELSE extract_test_methods(Tail(test_lines))

\* ------------------------------------------------- analyze_test_with_agent
\* Position of the first ':' of the line at or after i, 0 when there is none.
RECURSIVE FirstColon(_, _)
FirstColon(s, i) == IF i > Len(s) THEN 0
                    ELSE IF s[i] = ":" THEN i
                    ELSE FirstColon(s, i + 1)

\* ':' in method_line
HasColon(method_line) == FirstColon(method_line, 1) > 0

\* method_line.split(':', 1)[0] and [1]
LineNumPart(method_line) == SubSeq(method_line, 1, FirstColon(method_line, 1) - 1)
MethodContent(method_line) == SubSeq(method_line, FirstColon(method_line, 1) + 1, Len(method_line))

\* str.strip(), as int() applies it to its argument
RECURSIVE Strip(_)
Strip(s) == IF s = <<>> THEN s
            ELSE IF IsSpace(Head(s)) THEN Strip(Tail(s))
            ELSE IF IsSpace(s[Len(s)]) THEN Strip(SubSeq(s, 1, Len(s) - 1))
            ELSE s

NumeralValue(t) == CHOOSE n \in 1..Len(Numerals) : Numerals[n] = t

\* try: int(line_num) except ValueError: 0
ParseLineNumMutOffByOne(line_num) ==
    IF Len(Strip(line_num)) = 1 /\ IsNumeral(Strip(line_num)[1])
    THEN NumeralValue(Strip(line_num)[1]) - 1 ELSE 0

ParseLineNum(line_num) ==
    IF Len(Strip(line_num)) = 1 /\ IsNumeral(Strip(line_num)[1])
    THEN NumeralValue(Strip(line_num)[1]) ELSE 0

Unknown == <<"Unknown">>

\* (\w+)\s*\( found lazily at or after position i: group 2 of the pattern of line 75
RECURSIVE IdentBeforeParen(_, _)
IdentBeforeParen(s, i) ==
    IF i > Len(s) THEN <<>>
    ELSE IF IsWord(s[i]) /\ SpacesThenParen(s, WordRunEnd(s, i) + 1)
         THEN SubSeq(s, i, WordRunEnd(s, i))
         ELSE IdentBeforeParen(s, i + 1)

\* re.search(r'(public|private|protected).*?(\w+)\s*\(', method_content), scanning from i;
\* group(2), or <<>> for no match
RECURSIVE SearchAnnotatedName(_, _)
SearchAnnotatedName(s, i) ==
    IF i > Len(s) THEN <<>>
    ELSE IF s[i] \in ModifierTokens /\ IdentBeforeParen(s, i + 1) # <<>>
         THEN IdentBeforeParen(s, i + 1)
         ELSE SearchAnnotatedName(s, i + 1)

\* re.search(r'(test\w+)', method_content, re.IGNORECASE), scanning from i; group(1) or <<>>
RECURSIVE SearchTestName(_, _)
SearchTestName(s, i) ==
    IF i > Len(s) THEN <<>>
    ELSE IF TestWordAt(s, i) > 0 THEN SubSeq(s, i, TestWordAt(s, i))
    ELSE SearchTestName(s, i + 1)

\* Lines 71-82: the derived method name.
MethodName(method_content) ==
    IF HasAnnotation(method_content)
    THEN IF SearchAnnotatedName(method_content, 1) # <<>>
         THEN SearchAnnotatedName(method_content, 1) ELSE Unknown
    ELSE IF SearchTestName(method_content, 1) # <<>>
         THEN SearchTestName(method_content, 1) ELSE Unknown

\* Python's seq[a:b]: negative indices count from the end, both ends are clipped.
\* a and b are 0-based; the result is a 1-based TLA+ sequence.
PyIndex(n, len) == IF n < 0 THEN (IF n + len < 0 THEN 0 ELSE n + len)
                   ELSE (IF n > len THEN len ELSE n)

PySlice(seq, a, b) == SubSeq(seq, PyIndex(a, Len(seq)) + 1, PyIndex(b, Len(seq)))

\* f.readlines() of a file of n lines; line i of the file is written i
FileLines(n) == [i \in 1..n |-> i]

\* What open/readlines can do: succeed, raise IOError (OSError), or raise
\* UnicodeDecodeError (a ValueError) on bytes that do not decode.
ReadOutcomes == {"ok", "ioerror", "decode"}

\* Lines 84-91.  The joined window is written as the sequence of its lines; the
\* fallback is the matched text.  "raised" is TRUE when the exception is none of
\* (IOError, IndexError) and leaves the function.
MethodBodyMutStartAtLineNum(method_content, line_num_int, nlines, read) ==
    IF read = "ok"
    THEN [src |-> "file", raised |-> FALSE, text |-> <<>>,
          lines |-> PySlice(FileLines(nlines), line_num_int, line_num_int + WindowSize)]
    ELSE IF read = "ioerror"
    THEN [src |-> "line", raised |-> FALSE, text |-> method_content, lines |-> <<>>]
    ELSE [src |-> "none", raised |-> TRUE, text |-> <<>>, lines |-> <<>>]

MethodBody(method_content, line_num_int, nlines, read) ==
    IF read = "ok"
    THEN [src |-> "file", raised |-> FALSE, text |-> <<>>,
          lines |-> PySlice(FileLines(nlines), line_num_int - 1, line_num_int - 1 + WindowSize)]
    ELSE IF read = "ioerror"
    THEN [src |-> "line", raised |-> FALSE, text |-> method_content, lines |-> <<>>]
    ELSE [src |-> "none", raised |-> TRUE, text |-> <<>>, lines |-> <<>>]

\* What agent.structured_output can do: return a TestPurpose or raise.
Responses == {"Tests"}
Errors == {"throttled"}
AgentOutcomes == Responses \cup Errors

\* Lines 107-111: the call of the agent inside try/except Exception.  "raised" is
\* TRUE when an exception leaves the block.
AgentCallMutNoCatch(agent) ==
    IF agent \in Responses THEN [raised |-> FALSE, purpose |-> <<agent>>]
    ELSE [raised |-> TRUE, purpose |-> <<>>]

AgentCall(agent) ==
    IF agent \in Responses THEN [raised |-> FALSE, purpose |-> <<agent>>]
    ELSE [raised |-> FALSE, purpose |-> <<"Analysis failed: ", agent>>]

NoPrompt == [name |-> <<>>, body |-> [src |-> "none", raised |-> FALSE, text |-> <<>>, lines |-> <<>>]]

\* analyze_test_with_agent(method_line, file_path, agent), for a file of nlines lines on
\* which the read does `read` and an agent that does `agent`.  The value has the
\* TestMethod returned (tm), whether the file was opened (opened), whether the agent
\* was called and with what (called, prompt), and whether an exception left the
\* function instead (raised).
analyze_test_with_agent(method_line, file_path, nlines, read, agent) ==
    IF ~HasColon(method_line)
    THEN [raised |-> FALSE, opened |-> FALSE, called |-> FALSE, prompt |-> NoPrompt,
          tm |-> [name |-> Unknown, line_number |-> 0, purpose |-> <<"Unknown test">>,
                  file_path |-> file_path]]
    ELSE LET method_content == MethodContent(method_line)
             line_num_int == ParseLineNum(LineNumPart(method_line))
             method_name == MethodName(method_content)
             method_body == MethodBody(method_content, line_num_int, nlines, read)
         IN  IF method_body.raised
             THEN [raised |-> TRUE, opened |-> TRUE, called |-> FALSE, prompt |-> NoPrompt,
                   tm |-> [name |-> method_name, line_number |-> line_num_int,
                           purpose |-> <<>>, file_path |-> file_path]]
             ELSE [raised |-> AgentCall(agent).raised, opened |-> TRUE, called |-> TRUE,
                   prompt |-> [name |-> method_name, body |-> method_body],
                   tm |-> [name |-> method_name, line_number |-> line_num_int,
                           purpose |-> AgentCall(agent).purpose, file_path |-> file_path]]

\* ---------------------------------------------------------- the file system
\* A source file is the sequence of its lines.  The lines the pipeline is run on:
\*   "-"  a line without the letters t-e-s-t
\*   "R"  a comment that mentions a test
\*   "P"  a method declaration `public testw(`
\*   "F"  a line that holds a bare carriage return followed by `@Test`
LineKinds == {"-", "R", "P", "F"}

LineText(k) == CASE k = "-" -> <<"w">>
                 [] k = "R" -> <<"@", " ", "test">>
                 [] k = "P" -> <<"public", " ", "test", "w", "(">>
                 [] k = "F" -> <<"w", "\r", "@", "Test">>

\* The files of a repository hold at most MaxRepoLines lines between them.
FileContents(n) == UNION {[1..m -> LineKinds] : m \in 0..n}

RECURSIVE LinesScanned(_)
LinesScanned(sc) == IF sc = <<>> THEN 0 ELSE Head(sc).nlines + LinesScanned(Tail(sc))

\* grep -i test: the line holds the letters t-e-s-t in some case
GrepMatches(text) == \E i \in 1..Len(text) : Lower(text[i]) = "test"

\* text.split('\n') after the text-mode pipe has turned every '\r' into '\n'
RECURSIVE SplitNewlines(_)
SplitNewlines(text) ==
    IF \A i \in 1..Len(text) : text[i] # "\r" THEN <<text>>
    ELSE LET i == CHOOSE j \in 1..Len(text) :
                      text[j] = "\r" /\ \A h \in 1..(j - 1) : text[h] # "\r"
         IN  <<SubSeq(text, 1, i - 1)>> \o SplitNewlines(SubSeq(text, i + 1, Len(text)))

\* The standard output of `grep -n -i test file`, from line i of the file on, as
\* the text-mode pipe delivers it and split('\n') cuts it.
RECURSIVE GrepOutput(_, _)
GrepOutput(content, i) ==
    IF i > Len(content) THEN <<>>
    ELSE IF GrepMatches(LineText(content[i]))
         THEN SplitNewlines(<<Numerals[i], ":">> \o LineText(content[i])) \o GrepOutput(content, i + 1)
         ELSE GrepOutput(content, i + 1)

\* find_test_lines(file_path) on a file with this content
find_test_lines(content) == GrepOutput(content, 1)

\* len(f.readlines()) for this content: open() in text mode ends a line at a bare
\* carriage return as well.
RECURSIVE ReadlinesCount(_)
ReadlinesCount(content) ==
    IF content = <<>> THEN 0
    ELSE Len(SplitNewlines(LineText(Head(content)))) + ReadlinesCount(Tail(content))

\* test_methods[:3]
FirstN(seq, n) == SubSeq(seq, 1, IF Len(seq) < n THEN Len(seq) ELSE n)

\* ------------------------------------------------------------ list_files
\* The standard output of `find repo_path -type f -name *.java` when n files match:
\* each path, written as the one character i, followed by a newline.
NL == 0

RECURSIVE FindStdout(_)
FindStdout(n) == IF n = 0 THEN <<>> ELSE FindStdout(n - 1) \o <<n, NL>>

\* str.strip() on the output: the newlines at both ends go
RECURSIVE StripOutput(_)
StripOutput(s) == IF s = <<>> THEN s
                  ELSE IF Head(s) = NL THEN StripOutput(Tail(s))
                  ELSE IF s[Len(s)] = NL THEN StripOutput(SubSeq(s, 1, Len(s) - 1))
                  ELSE s

\* str.split('\n'): the pieces between newlines, one piece for a text without any
RECURSIVE SplitOutput(_)
SplitOutput(s) ==
    IF \A i \in 1..Len(s) : s[i] # NL THEN <<s>>
    ELSE LET i == CHOOSE j \in 1..Len(s) : s[j] = NL /\ \A h \in 1..(j - 1) : s[h] # NL
         IN  <<SubSeq(s, 1, i - 1)>> \o SplitOutput(SubSeq(s, i + 1, Len(s)))

\* Line 37: result.stdout.strip().split('\n') if result.stdout else []
list_filesMutNoGuard(stdout) == SplitOutput(StripOutput(stdout))

list_files(stdout) == IF stdout # <<>> THEN SplitOutput(StripOutput(stdout)) ELSE <<>>

\* ------------------------------------------------------------------- state
VARIABLES
    pc,                \* where main is: "start", "loop", "analyze", "done", "raised"
    files,             \* list_files(repo_path): the paths, written 1, 2, ...
    existing,          \* the paths for which os.path.exists holds
    idx,               \* position of the for loop of line 139 in files
    test_methods,      \* the candidates of the file being processed
    analyzed_methods,  \* the TestMethods of the file being processed
    file_analyses,
    total_tests,
    result,            \* the TestExtractionResult of line 172
    calls,             \* agent.structured_output calls made for the file being processed
    last,              \* the latest call of analyze_test_with_agent: its inputs and value
    scanned,           \* per path that was grepped: its lines as grep and as readlines count
                       \* them, and its candidates
    arg,               \* argument of a function applied on its own; in main, the
                       \* standard output of find that list_files read
    ret                \* and its value

vars == <<pc, files, existing, idx, test_methods, analyzed_methods, file_analyses,
          total_tests, result, calls, last, scanned, arg, ret>>

NoResult == [repository_path |-> "", total_files_analyzed |-> 0, total_tests_found |-> 0,
             file_analyses |-> <<>>, summary |-> <<"Analysis incomplete">>]

NoCall == [method_line |-> <<>>, nlines |-> 0, read |-> "none", agent |-> "none",
           raised |-> FALSE, called |-> FALSE, prompt |-> NoPrompt]

Init ==
    /\ pc = "start"
    /\ files = <<>>
    /\ existing = {}
    /\ idx = 1
    /\ test_methods = <<>>
    /\ analyzed_methods = <<>>
    /\ file_analyses = <<>>
    /\ total_tests = 0
    /\ result = NoResult
    /\ calls = 0
    /\ last = NoCall
    /\ scanned = <<>>
    /\ arg = <<>>
    /\ ret = <<>>

\* Lines 133-137: list_files and the empty accumulators.  find prints n paths; a
\* path need not exist when the loop reaches it.
ListFiles ==
    /\ pc = "start"
    /\ \E n \in 0..MaxFiles : \E ex \in SUBSET {<<i>> : i \in 1..n} :
         /\ arg' = FindStdout(n)
         /\ files' = list_files(FindStdout(n))
         /\ existing' = ex
    /\ file_analyses' = <<>>
    /\ total_tests' = 0
    /\ idx' = 1
    /\ pc' = "loop"
    /\ UNCHANGED <<test_methods, analyzed_methods, result, calls, last, scanned, ret>>

\* Lines 140-141: the path does not exist.
SkipMissing ==
    /\ pc = "loop"
    /\ idx <= Len(files)
    /\ files[idx] \notin existing
    /\ idx' = idx + 1
    /\ UNCHANGED <<pc, files, existing, test_methods, analyzed_methods, file_analyses,
                   total_tests, result, calls, last, scanned, arg, ret>>

\* Lines 144-155 for an existing file with this content.
ScanFileMutDropEmpty(content) ==
    /\ pc = "loop"
    /\ idx <= Len(files)
    /\ files[idx] \in existing
    /\ LET test_lines == find_test_lines(content)
           methods == extract_test_methods(test_lines)
       IN  /\ scanned' = Append(scanned, [file_path |-> files[idx], nlines |-> Len(content),
                                          readlines |-> ReadlinesCount(content),
                                          candidates |-> methods])
           /\ test_methods' = methods
           /\ analyzed_methods' = <<>>
           /\ calls' = 0
           /\ pc' = "analyze"
           /\ idx' = idx
    /\ UNCHANGED <<files, existing, file_analyses, total_tests, result, last, arg, ret>>

ScanFile(content) ==
    /\ pc = "loop"
    /\ idx <= Len(files)
    /\ files[idx] \in existing
    /\ LET test_lines == find_test_lines(content)
           methods == extract_test_methods(test_lines)
       IN  /\ scanned' = Append(scanned, [file_path |-> files[idx], nlines |-> Len(content),
                                          readlines |-> ReadlinesCount(content),
                                          candidates |-> methods])
           /\ IF test_lines = <<>> \/ test_lines = << <<>> >> \/ methods = <<>>
              THEN /\ idx' = idx + 1
                   /\ UNCHANGED <<pc, test_methods, analyzed_methods, calls>>
              ELSE /\ test_methods' = methods
                   /\ analyzed_methods' = <<>>
                   /\ calls' = 0
                   /\ pc' = "analyze"
                   /\ idx' = idx
    /\ UNCHANGED <<files, existing, file_analyses, total_tests, result, last, arg, ret>>

\* Lines 159-161: one iteration of the loop over test_methods[:3].
AnalyzeNextMutNoLimit(read, agent) ==
    /\ pc = "analyze"
    /\ Len(analyzed_methods) < Len(test_methods)
    /\ LET method_line == test_methods[Len(analyzed_methods) + 1]
           nlines == scanned[Len(scanned)].readlines
           r == analyze_test_with_agent(method_line, files[idx], nlines, read, agent)
       IN  /\ last' = [method_line |-> method_line, nlines |-> nlines,
                       read |-> IF r.opened THEN read ELSE "none",
                       agent |-> IF r.called THEN agent ELSE "none",
                       raised |-> r.raised, called |-> r.called, prompt |-> r.prompt]
           /\ calls' = IF r.called THEN calls + 1 ELSE calls
           /\ IF r.raised
              THEN pc' = "raised" /\ UNCHANGED analyzed_methods
              ELSE pc' = pc /\ analyzed_methods' = Append(analyzed_methods, r.tm)
    /\ UNCHANGED <<files, existing, idx, test_methods, file_analyses, total_tests, result,
                   scanned, arg, ret>>

AnalyzeNext(read, agent) ==
    /\ pc = "analyze"
    /\ Len(analyzed_methods) < Len(FirstN(test_methods, DemoLimit))
    /\ LET method_line == FirstN(test_methods, DemoLimit)[Len(analyzed_methods) + 1]
           nlines == scanned[Len(scanned)].readlines
           r == analyze_test_with_agent(method_line, files[idx], nlines, read, agent)
       IN  /\ last' = [method_line |-> method_line, nlines |-> nlines,
                       read |-> IF r.opened THEN read ELSE "none",
                       agent |-> IF r.called THEN agent ELSE "none",
                       raised |-> r.raised, called |-> r.called, prompt |-> r.prompt]
           /\ calls' = IF r.called THEN calls + 1 ELSE calls
           /\ IF r.raised
              THEN pc' = "raised" /\ UNCHANGED analyzed_methods
              ELSE pc' = pc /\ analyzed_methods' = Append(analyzed_methods, r.tm)
    /\ UNCHANGED <<files, existing, idx, test_methods, file_analyses, total_tests, result,
                   scanned, arg, ret>>

\* Lines 163-169: the file's FileAnalysis and the running total.
FileDoneMutCountCandidates ==
    /\ pc = "analyze"
    /\ Len(analyzed_methods) = Len(FirstN(test_methods, DemoLimit))
    /\ file_analyses' = Append(file_analyses,
                               [file_path |-> files[idx], test_methods |-> analyzed_methods,
                                total_tests |-> Len(analyzed_methods)])
    /\ total_tests' = total_tests + Len(test_methods)
    /\ idx' = idx + 1
    /\ pc' = "loop"
    /\ test_methods' = <<>>
    /\ analyzed_methods' = <<>>
    /\ calls' = 0
    /\ last' = NoCall
    /\ UNCHANGED <<files, existing, result, scanned, arg, ret>>

FileDoneMutRecordCandidates ==
    /\ pc = "analyze"
    /\ Len(analyzed_methods) = Len(FirstN(test_methods, DemoLimit))
    /\ file_analyses' = Append(file_analyses,
                               [file_path |-> files[idx], test_methods |-> analyzed_methods,
                                total_tests |-> Len(test_methods)])
    /\ total_tests' = total_tests + Len(analyzed_methods)
    /\ idx' = idx + 1
    /\ pc' = "loop"
    /\ test_methods' = <<>>
    /\ analyzed_methods' = <<>>
    /\ calls' = 0
    /\ last' = NoCall
    /\ UNCHANGED <<files, existing, result, scanned, arg, ret>>

FileDone ==
    /\ pc = "analyze"
    /\ Len(analyzed_methods) = Len(FirstN(test_methods, DemoLimit))
    /\ file_analyses' = Append(file_analyses,
                               [file_path |-> files[idx], test_methods |-> analyzed_methods,
                                total_tests |-> Len(analyzed_methods)])
    /\ total_tests' = total_tests + Len(analyzed_methods)
    /\ idx' = idx + 1
    /\ pc' = "loop"
    /\ test_methods' = <<>>
    /\ analyzed_methods' = <<>>
    /\ calls' = 0
    /\ last' = NoCall
    /\ UNCHANGED <<files, existing, result, scanned, arg, ret>>

\* Lines 172-178: the final TestExtractionResult.
Finish ==
    /\ pc = "loop"
    /\ idx > Len(files)
    /\ result' = [repository_path |-> "repo",
                  total_files_analyzed |-> Cardinality({i \in 1..Len(files) : files[i] \in existing}),
                  total_tests_found |-> total_tests,
                  file_analyses |-> file_analyses,
                  summary |-> <<"Analyzed ", Len(file_analyses), " files with test methods, found ",
                                total_tests, " total test methods">>]
    /\ pc' = "done"
    /\ UNCHANGED <<files, existing, idx, test_methods, analyzed_methods, file_analyses,
                   total_tests, calls, last, scanned, arg, ret>>

Next ==
    \/ ListFiles
    \/ SkipMissing
    \/ \E content \in FileContents(MaxRepoLines - LinesScanned(scanned)) : ScanFile(content)
    \/ \E read \in ReadOutcomes, agent \in AgentOutcomes : AnalyzeNext(read, agent)
    \/ FileDone
    \/ Finish

Spec == Init /\ [][Next]_vars

\* ------------------------------------- the functions applied on their own
\* extract_test_methods and the name derivation, on one grep line `1:<text>` for
\* every text of at most MaxLineLen tokens.
NoTestMethod == [name |-> <<>>, line_number |-> 0, purpose |-> <<>>, file_path |-> 0]

LineInit ==
    /\ pc = "line"
    /\ arg \in SeqsUpTo(MaxLineLen)
    /\ ret = [methods |-> <<>>, tm |-> NoTestMethod]
    /\ files = <<>> /\ existing = {} /\ idx = 1 /\ test_methods = <<>>
    /\ analyzed_methods = <<>> /\ file_analyses = <<>> /\ total_tests = 0
    /\ result = NoResult /\ calls = 0 /\ last = NoCall /\ scanned = <<>>

pipelineVars == <<files, existing, idx, test_methods, analyzed_methods, file_analyses,
                  total_tests, result, calls, last, scanned>>

GrepLine(text) == <<"1", ":">> \o text

ExtractLine ==
    /\ pc = "line"
    /\ ret' = [ret EXCEPT !.methods = extract_test_methods(<<GrepLine(arg)>>)]
    /\ pc' = "extracted"
    /\ UNCHANGED <<arg, pipelineVars>>

NameLine ==
    /\ pc = "extracted"
    /\ ret.methods # <<>>
    /\ ret' = [ret EXCEPT !.tm = analyze_test_with_agent(ret.methods[1], 1, 1, "ok", "Tests").tm]
    /\ pc' = "named"
    /\ UNCHANGED <<arg, pipelineVars>>

LineNext == ExtractLine \/ NameLine

SpecLine == LineInit /\ [][LineNext]_vars

\* analyze_test_with_agent on one candidate line, for every length of the file, every
\* outcome of the read and of the agent.  The candidates: `n:public testw(` for a
\* line number n, `grep:@Test` (a prefix that is no number) and `@Test` (no prefix).
AnalyzeLines == {<<Numerals[n], ":">> \o LineText("P") : n \in 1..(MaxFileLen + 1)}
                \cup {<<"w", ":", "@", "Test">>, <<"@", "Test">>}

AnalyzeInit ==
    /\ pc = "call"
    /\ arg \in [method_line : AnalyzeLines, nlines : 0..MaxFileLen,
                read : ReadOutcomes, agent : AgentOutcomes]
    /\ ret = [raised |-> FALSE, opened |-> FALSE, called |-> FALSE, prompt |-> NoPrompt,
              tm |-> NoTestMethod]
    /\ files = <<>> /\ existing = {} /\ idx = 1 /\ test_methods = <<>>
    /\ analyzed_methods = <<>> /\ file_analyses = <<>> /\ total_tests = 0
    /\ result = NoResult /\ calls = 0 /\ last = NoCall /\ scanned = <<>>

Analyze ==
    /\ pc = "call"
    /\ ret' = analyze_test_with_agent(arg.method_line, 1, arg.nlines, arg.read, arg.agent)
    /\ pc' = "returned"
    /\ UNCHANGED <<arg, pipelineVars>>

AnalyzeNextStep == Analyze

SpecAnalyze == AnalyzeInit /\ [][AnalyzeNextStep]_vars

\* ------------------------------------------------- find_files (lesson_3)
\* Paths, names and patterns are sequences of tokens; "*", " " and "'" are single
\* characters, ".java", ".py", ... stand for the characters of an extension.

\* Line 32: the allow-list.
AllowedPatterns == {<<"*", ".java">>, <<"*", ".py">>, <<"*", ".js">>, <<"*", ".ts">>,
                    <<"*", ".jsx">>, <<"*", ".tsx">>, <<"*", ".c">>, <<"*", ".cpp">>,
                    <<"*", ".h">>}

\* shlex.quote(s): s itself when it is not empty and has only the characters
\* [\w@%+=:,./-]; else s between single quotes, each ' of s written '"'"'.
IsSafeToken(t) == t \notin {"*", " ", "'", "\""}

RECURSIVE EscapeQuotes(_)
EscapeQuotes(s) ==
    IF s = <<>> THEN <<>>
    ELSE (IF Head(s) = "'" THEN <<"'", "\"", "'", "\"", "'">> ELSE <<Head(s)>>)
         \o EscapeQuotes(Tail(s))

ShlexQuote(s) ==
    IF s = <<>> THEN <<"'", "'">>
    ELSE IF \A i \in 1..Len(s) : IsSafeToken(s[i]) THEN s
    ELSE <<"'">> \o EscapeQuotes(s) \o <<"'">>

\* The match of find's -name test: "*" stands for any characters, also a
\* leading ".", every other token of these patterns for itself.
RECURSIVE Fnmatch(_, _)
Fnmatch(pat, name) ==
    IF pat = <<>> THEN name = <<>>
    ELSE IF Head(pat) = "*"
         THEN \E k \in 0..Len(name) : Fnmatch(Tail(pat), SubSeq(name, k + 1, Len(name)))
         ELSE name # <<>> /\ Head(name) = Head(pat) /\ Fnmatch(Tail(pat), Tail(name))

\* The file system: two directories (one with a space in its name) that hold
\* the entries drawn for the run, a regular file, and nothing else.
RepoDir == <<"/", "repo">>
SpaceDir == <<"/", "my", " ", "repo">>
PlainFile == <<"/", "notes", ".java">>
MissingDir == <<"/", "gone">>
FindPaths == {RepoDir, SpaceDir, PlainFile, MissingDir}

PathKind(path) == IF path \in {RepoDir, SpaceDir} THEN "dir"
                  ELSE IF path = PlainFile THEN "file"
                  ELSE "none"

EntryNames == {<<"a", ".java">>, <<"'", "a", ".java", "'">>, <<"a", ".py">>,
               <<"a", ".java", ".txt">>, <<".java">>}
EntryKinds == {"f", "d"}
Entries == [name : EntryNames, kind : EntryKinds]

\* The directory listings: at most MaxEntries entries, no name twice.
Listings == {l \in UNION {[1..n -> Entries] : n \in 0..MaxEntries} :
               \A i, j \in 1..Len(l) : l[i].name = l[j].name => i = j}

\* What `find <start> -type f -name <pat>` prints, from entry i of the listing
\* on: the paths of the regular files whose name matches, in directory order.
RECURSIVE FindLines(_, _, _, _)
FindLines(start, pat, entries, i) ==
    IF i > Len(entries) THEN <<>>
    ELSE (IF entries[i].kind = "f" /\ Fnmatch(pat, entries[i].name)
          THEN <<start \o <<"/">> \o entries[i].name>> ELSE <<>>)
         \o FindLines(start, pat, entries, i + 1)

\* subprocess.run(['find', start, '-type', 'f', '-name', pat], shell=False): the
\* arguments reach find as they are, no shell removes a quote.
RunFind(start, pat, entries) ==
    IF PathKind(start) = "none" THEN [returncode |-> 1, stdout |-> <<>>]
    ELSE IF PathKind(start) = "file"
         THEN [returncode |-> 0,
               stdout |-> IF Fnmatch(pat, Tail(start)) THEN <<start>> ELSE <<>>]
    ELSE [returncode |-> 0, stdout |-> FindLines(start, pat, entries, 1)]

\* Lines 25-45.  The value: which error message, if any, and the lines of the
\* returned text.
find_files(path, name_pattern, entries) ==
    IF PathKind(path) # "dir" THEN [error |-> "Invalid or non-existent directory", paths |-> <<>>]
    ELSE IF name_pattern \notin AllowedPatterns
         THEN [error |-> "Pattern not allowed", paths |-> <<>>]
    ELSE LET run == RunFind(ShlexQuote(path), ShlexQuote(name_pattern), entries)
         IN  IF run.returncode # 0 THEN [error |-> "CalledProcessError", paths |-> <<>>]
             ELSE [error |-> "", paths |-> run.stdout]

FindInit ==
    /\ pc = "find"
    /\ arg \in [path : FindPaths, name_pattern : AllowedPatterns \cup {<<"*">>},
                entries : Listings]
    /\ ret = [error |-> "", paths |-> <<>>]
    /\ files = <<>> /\ existing = {} /\ idx = 1 /\ test_methods = <<>>
    /\ analyzed_methods = <<>> /\ file_analyses = <<>> /\ total_tests = 0
    /\ result = NoResult /\ calls = 0 /\ last = NoCall /\ scanned = <<>>

FindFiles ==
    /\ pc = "find"
    /\ ret' = find_files(arg.path, arg.name_pattern, arg.entries)
    /\ pc' = "found"
    /\ UNCHANGED <<arg, pipelineVars>>

FindNext == FindFiles

SpecFind == FindInit /\ [][FindNext]_vars

\* ------------------------------------- the menu loop (lesson_2, lesson_3)
\* main of lesson_2 (lines 72-137); main of lesson_3 (lines 144-210) has the same
\* statements.  pc is the call main is blocked in: "create" (line 79), "menu"
\* (input of line 92), "repo" (input of line 95), "extract" (agent of line 106),
\* "chat" (input of line 122), "answer" (agent of line 127); "exited" after the
\* break of line 134, "failed" after sys.exit(1), "raised" when an exception left
\* main.  ret holds the stripped inputs read last, what the iteration came to,
\* the number of agent calls and the number of input() calls.
MenuLines == {<<"1">>, <<"2">>, <<"3">>, <<" ", "3", " ">>, <<"4">>, <<"3", "3">>, <<>>}
TextLines == {<<>>, <<" ">>, <<"repo">>, <<" ", "my", " ", "repo">>}

\* input(): a line of text, or EOFError at the end of the input
InputOutcomes(lines) == {[raised |-> FALSE, line |-> l] : l \in lines}
                        \cup {[raised |-> TRUE, line |-> <<>>]}

SaveOutcomes == {"ok", "oserror"}

MenuInit ==
    /\ pc = "create"
    /\ arg = <<>>
    /\ ret = [choice |-> <<>>, text |-> <<>>, event |-> "none", invoked |-> 0, inputs |-> 0]
    /\ files = <<>> /\ existing = {} /\ idx = 1 /\ test_methods = <<>>
    /\ analyzed_methods = <<>> /\ file_analyses = <<>> /\ total_tests = 0
    /\ result = NoResult /\ calls = 0 /\ last = NoCall /\ scanned = <<>>

\* Lines 78-83: the agent is created, or main exits with status 1.
CreateAgent(created) ==
    /\ pc = "create"
    /\ IF created
       THEN pc' = "menu" /\ ret' = ret
       ELSE pc' = "failed" /\ ret' = [ret EXCEPT !.event = "init_failed"]
    /\ UNCHANGED <<arg, pipelineVars>>

\* Lines 92-94, 121, 132-137: the choice is read and stripped.
ReadChoice(in) ==
    /\ pc = "menu"
    /\ ret.inputs < MaxInputs
    /\ LET choice == Strip(in.line)
           r == [ret EXCEPT !.inputs = @ + 1]
       IN  IF in.raised
           THEN pc' = "raised" /\ ret' = [r EXCEPT !.event = "eof"]
           ELSE IF choice = <<"1">>
                THEN pc' = "repo" /\ ret' = [r EXCEPT !.choice = choice, !.event = "none"]
           ELSE IF choice = <<"2">>
                THEN pc' = "chat" /\ ret' = [r EXCEPT !.choice = choice, !.event = "none"]
           ELSE IF choice = <<"3">>
                THEN pc' = "exited" /\ ret' = [r EXCEPT !.choice = choice, !.event = "goodbye"]
           ELSE pc' = "menu" /\ ret' = [r EXCEPT !.choice = choice, !.event = "invalid"]
    /\ UNCHANGED <<arg, pipelineVars>>

\* Lines 95-103: the repository path is read; an empty one goes back to the menu.
ReadRepoPath(in) ==
    /\ pc = "repo"
    /\ ret.inputs < MaxInputs
    /\ LET repo_path == Strip(in.line)
           r == [ret EXCEPT !.inputs = @ + 1]
       IN  IF in.raised
           THEN pc' = "raised" /\ ret' = [r EXCEPT !.event = "eof"]
           ELSE IF repo_path = <<>>
                THEN pc' = "menu" /\ ret' = [r EXCEPT !.text = repo_path, !.event = "empty_path"]
           ELSE pc' = "extract" /\ ret' = [r EXCEPT !.text = repo_path]
    /\ UNCHANGED <<arg, pipelineVars>>

\* Lines 105-119: the agent call and the save of its message, in one try.
ExtractTests(agent, save) ==
    /\ pc = "extract"
    /\ ret' = [ret EXCEPT !.invoked = @ + 1,
                          !.event = IF agent \in Errors \/ save = "oserror"
                                    THEN "analysis_failed" ELSE "saved"]
    /\ pc' = "menu"
    /\ UNCHANGED <<arg, pipelineVars>>

\* Lines 122-124: the chat input is read; an empty one goes back to the menu.
ReadChat(in) ==
    /\ pc = "chat"
    /\ ret.inputs < MaxInputs
    /\ LET user_input == Strip(in.line)
           r == [ret EXCEPT !.inputs = @ + 1]
       IN  IF in.raised
           THEN pc' = "raised" /\ ret' = [r EXCEPT !.event = "eof"]
           ELSE IF user_input = <<>>
                THEN pc' = "menu" /\ ret' = [r EXCEPT !.text = user_input, !.event = "empty_chat"]
           ELSE pc' = "answer" /\ ret' = [r EXCEPT !.text = user_input]
    /\ UNCHANGED <<arg, pipelineVars>>

\* Lines 126-130: the agent call of the chat, in a try.
ChatAgentMutNoCatch(agent) ==
    /\ pc = "answer"
    /\ ret' = [ret EXCEPT !.invoked = @ + 1,
                          !.event = IF agent \in Errors THEN "chat_error" ELSE "answered"]
    /\ pc' = IF agent \in Errors THEN "raised" ELSE "menu"
    /\ UNCHANGED <<arg, pipelineVars>>

ChatAgent(agent) ==
    /\ pc = "answer"
    /\ ret' = [ret EXCEPT !.invoked = @ + 1,
                          !.event = IF agent \in Errors THEN "chat_error" ELSE "answered"]
    /\ pc' = "menu"
    /\ UNCHANGED <<arg, pipelineVars>>

MenuNext ==
    \/ \E created \in BOOLEAN : CreateAgent(created)
    \/ \E in \in InputOutcomes(MenuLines) : ReadChoice(in)
    \/ \E in \in InputOutcomes(TextLines) : ReadRepoPath(in)
    \/ \E agent \in AgentOutcomes, save \in SaveOutcomes : ExtractTests(agent, save)
    \/ \E in \in InputOutcomes(TextLines) : ReadChat(in)
    \/ \E agent \in AgentOutcomes : ChatAgent(agent)

SpecMenu == MenuInit /\ [][MenuNext]_vars

\* ------------------------------------------------------------------ claims
Min(a, b) == IF a < b THEN a ELSE b

RECURSIVE SumTotalTests(_)
SumTotalTests(fas) == IF fas = <<>> THEN 0 ELSE Head(fas).total_tests + SumTotalTests(Tail(fas))

\* The record of `scanned` for a path, and whether there is one.
WasScanned(p) == \E i \in 1..Len(scanned) : scanned[i].file_path = p
ScannedOf(p) == scanned[CHOOSE i \in 1..Len(scanned) : scanned[i].file_path = p]

HasAnalysis(p) == \E i \in 1..Len(file_analyses) : file_analyses[i].file_path = p

\* C1: at every point of the loop of main the running total_tests is the sum of
\* total_tests over the file_analyses built so far, and in the final
\* TestExtractionResult total_tests_found is the sum of total_tests over its
\* file_analyses.
C1_TotalIsSum ==
    /\ pc \in {"loop", "analyze", "done", "raised"} => total_tests = SumTotalTests(file_analyses)
    /\ pc = "done" => result.total_tests_found = SumTotalTests(result.file_analyses)

\* A final result over two analysed files, one of them cut at the limit.
C1_Witness ==
    /\ pc = "done"
    /\ Len(result.file_analyses) = 2
    /\ result.total_tests_found >= DemoLimit
    /\ \E i \in 1..Len(scanned) : Len(scanned[i].candidates) > Len(result.file_analyses[1].test_methods)

\* The line number a TestMethod carries for a candidate line: the numeral before
\* the first ':' of a numbered grep line, 0 for a line without such a prefix.
IsNumbered(line) == Len(line) >= 2 /\ IsNumeral(line[1]) /\ line[2] = ":"
NumberOf(line) == IF IsNumbered(line) THEN NumeralValue(line[1]) ELSE 0

\* The entries of a FileAnalysis are the first min(3, n) candidates of its file, in order.
IsCapOf(methods, candidates) ==
    /\ Len(methods) = Min(DemoLimit, Len(candidates))
    /\ \A k \in 1..Len(methods) : methods[k].line_number = NumberOf(candidates[k])
    /\ \A j, k \in 1..Len(methods) :
         (j < k /\ methods[j].line_number > 0 /\ methods[k].line_number > 0)
            => methods[j].line_number < methods[k].line_number

\* C2: a file with n accepted candidates gets exactly min(3, n) TestMethods, they
\* are its first min(3, n) candidates in grep order, and the agent is called at
\* most 3 times for a file, never for a fourth candidate.
C2_CandidateCap ==
    /\ calls <= DemoLimit
    /\ Len(analyzed_methods) <= DemoLimit
    /\ pc = "analyze" => \A k \in 1..Len(analyzed_methods) :
           analyzed_methods[k].line_number = NumberOf(test_methods[k])
    /\ \A i \in 1..Len(file_analyses) :
           /\ WasScanned(file_analyses[i].file_path)
           /\ IsCapOf(file_analyses[i].test_methods, ScannedOf(file_analyses[i].file_path).candidates)
    /\ pc = "done" => \A i \in 1..Len(scanned) :
           Len(scanned[i].candidates) > 0 => HasAnalysis(scanned[i].file_path)

\* A final result with a file of four candidates, of which three were analysed.
C2_Witness ==
    /\ pc = "done"
    /\ \E i \in 1..Len(result.file_analyses) :
         /\ Len(ScannedOf(result.file_analyses[i].file_path).candidates) = DemoLimit + 1
         /\ Len(result.file_analyses[i].test_methods) = DemoLimit

AllMethods(fas) == UNION {{fas[i].test_methods[k] : k \in 1..Len(fas[i].test_methods)} : i \in 1..Len(fas)}

IsFailure(purpose) == Len(purpose) = 2 /\ purpose[1] = "Analysis failed: " /\ purpose[2] \in Errors

\* C3: when the agent raises for a candidate, analyze_test_with_agent returns a
\* TestMethod whose purpose is "Analysis failed: <reason>", that TestMethod is
\* appended and the loop goes on; an exception never leaves main because of the
\* agent, and a final result that holds a failed purpose still holds every
\* candidate within the limit of every file.
C3_AgentFailureIsolated ==
    /\ (last.called /\ last.agent \in Errors) =>
           /\ ~last.raised
           /\ pc = "analyze"
           /\ analyzed_methods # <<>>
           /\ analyzed_methods[Len(analyzed_methods)].purpose = <<"Analysis failed: ", last.agent>>
    /\ pc = "raised" => ~last.called
    /\ (pc = "done" /\ \E tm \in AllMethods(result.file_analyses) : IsFailure(tm.purpose)) =>
           /\ \A i \in 1..Len(scanned) :
                Len(scanned[i].candidates) > 0 => HasAnalysis(scanned[i].file_path)
           /\ \A i \in 1..Len(result.file_analyses) :
                Len(result.file_analyses[i].test_methods)
                    = Min(DemoLimit, Len(ScannedOf(result.file_analyses[i].file_path).candidates))

\* A final result where the agent failed for the first candidate of the first
\* file, and the later candidates of that file and a later file are there.
C3_Witness ==
    /\ pc = "done"
    /\ Len(result.file_analyses) = 2
    /\ Len(result.file_analyses[1].test_methods) >= 2
    /\ IsFailure(result.file_analyses[1].test_methods[1].purpose)
    /\ ~IsFailure(result.file_analyses[1].test_methods[2].purpose)
    /\ ~IsFailure(result.file_analyses[2].test_methods[1].purpose)

\* C4: a failure of the read for the context window (IOError, or bytes that do
\* not decode) never aborts the scan: the agent gets the matched text as context
\* and the loop goes on.
C4_ReadFailureDegrades ==
    last.read \in {"ioerror", "decode"} =>
        /\ pc # "raised"
        /\ ~last.raised
        /\ last.called
        /\ last.prompt.body.src = "line"
        /\ last.prompt.body.text = MethodContent(last.method_line)

\* C5: with a start line out of range (the line number 0 of a prefix that is no
\* integer, or a line number beyond the last line of the file) and a read that
\* succeeds, the context given to the agent is the matched text.
C5_OutOfRangeFallsBack ==
    (/\ pc = "returned"
     /\ ret.opened
     /\ arg.read = "ok"
     /\ (NumberOf(arg.method_line) < 1 \/ NumberOf(arg.method_line) > arg.nlines)) =>
        /\ ret.called
        /\ ret.prompt.body.src = "line"
        /\ ret.prompt.body.text = MethodContent(arg.method_line)

\* C6: for a file of L lines that is read and a line number n with 1 <= n <= L the
\* context is the lines n .. min(n + 19, L) of the file, in order; for n = L it is
\* the last line alone.
C6_WindowIsSlice ==
    (/\ pc = "returned"
     /\ arg.read = "ok"
     /\ IsNumbered(arg.method_line)
     /\ NumberOf(arg.method_line) <= arg.nlines) =>
        LET n == NumberOf(arg.method_line)
            hi == Min(n + WindowSize - 1, arg.nlines)
        IN  /\ ret.called
            /\ ~ret.raised
            /\ ret.prompt.body.src = "file"
            /\ ret.prompt.body.lines = [i \in 1..(hi - n + 1) |-> n + i - 1]
            /\ (n = arg.nlines => ret.prompt.body.lines = <<arg.nlines>>)

\* The window that starts at the last line of a file longer than the window.
C6_Witness ==
    /\ pc = "returned"
    /\ arg.read = "ok"
    /\ arg.nlines > WindowSize
    /\ NumberOf(arg.method_line) = arg.nlines
    /\ ret.called
    /\ ret.prompt.body.lines = <<arg.nlines>>

\* ---- extract_test_methods and the method name, under SpecLine
IdentStart(s, j) == j = 1 \/ ~IsWord(s[j - 1])

\* s[j..k] is an identifier: a maximal run of word characters
IsIdent(s, j, k) ==
    /\ 1 <= j /\ j <= k /\ k <= Len(s)
    /\ \A h \in j..k : IsWord(s[h])
    /\ IdentStart(s, j)
    /\ (k = Len(s) \/ ~IsWord(s[k + 1]))

\* The acceptance rule as the claim words it: a modifier in lower case, later an
\* identifier that starts with `test` in any case, then the parenthesis; or @Test.
StatedAccept(s) ==
    \/ HasAnnotation(s)
    \/ \E i, j, k \in 1..Len(s) :
         /\ s[i] \in ModifierTokens
         /\ i < j
         /\ IsIdent(s, j, k)
         /\ Lower(s[j]) = "test"
         /\ SpacesThenParen(s, k + 1)

\* C7 as stated: a line is accepted exactly when it has a lower-case modifier
\* followed later by an identifier starting with `test` and a parenthesis, or
\* the annotation; only `test` is matched in any case.
C7_AcceptsAsStated ==
    pc = "extracted" => ((ret.methods # <<>>) <=> StatedAccept(arg))

\* The rule of the code: the modifier in any case, later the letters `test` in
\* any case anywhere in a word, at least one more word character, optional white
\* space and the parenthesis; or the literal @Test.
AmendedAccept(s) ==
    \/ \E i \in 1..Len(s) : i < Len(s) /\ s[i] = "@" /\ s[i + 1] = "Test"
    \/ \E i \in 1..Len(s) :
         /\ Lower(s[i]) \in {"public", "private", "protected"}
         /\ \E j \in (i + 1)..Len(s) :
              /\ Lower(s[j]) = "test"
              /\ \E m \in (j + 2)..Len(s) :
                   /\ s[m] = "("
                   /\ \E k \in (j + 1)..(m - 1) :
                        /\ \A h \in (j + 1)..k : IsWord(s[h])
                        /\ \A h \in (k + 1)..(m - 1) : IsSpace(s[h])

\* C7 (amended): extract_test_methods keeps a grep line exactly when the whole
\* pattern modifier ... test\w+\s*\( matches it without regard to case, or it
\* holds the literal @Test; a kept line is returned unchanged.
C7_Accepts ==
    pc = "extracted" => ret.methods = (IF AmendedAccept(arg) THEN <<GrepLine(arg)>> ELSE <<>>)

\* `PUBLIC testw(` is accepted.
C7_Witness ==
    /\ pc = "extracted"
    /\ arg = <<"Public", "test", "w", "(">>
    /\ ret.methods = <<GrepLine(arg)>>

\* C8: the name of an accepted line is, for a line with @Test, the identifier
\* right before the opening parenthesis; for a line without, the whole
\* identifier that starts with `test`; "Unknown" only when the line has no such
\* identifier.
\* s[j..k] is an identifier right before an opening parenthesis, in the declaration
\* that follows the annotation
IsDeclaredName(s, j, k) ==
    /\ IsIdent(s, j, k)
    /\ SpacesThenParen(s, k + 1)
    /\ \E a \in 1..(j - 2) : s[a] = "@" /\ s[a + 1] = "Test"

C8_NameAsStated ==
    pc = "named" =>
        IF HasAnnotation(arg)
        THEN IF \E j, k \in 1..Len(arg) : IsDeclaredName(arg, j, k)
             THEN \E j, k \in 1..Len(arg) :
                    IsDeclaredName(arg, j, k) /\ ret.tm.name = SubSeq(arg, j, k)
             ELSE ret.tm.name = Unknown
        ELSE IF \E j, k \in 1..Len(arg) : IsIdent(arg, j, k) /\ Lower(arg[j]) = "test"
             THEN \E j, k \in 1..Len(arg) :
                    /\ IsIdent(arg, j, k) /\ Lower(arg[j]) = "test"
                    /\ ret.tm.name = SubSeq(arg, j, k)
             ELSE ret.tm.name = Unknown

\* ---- line numbers and the files of the result, under Spec
\* C9 as stated: every TestMethod of the final result has a line number between 1
\* and the number of lines of its file.
C9_LineNumbersAsStated ==
    pc = "done" => \A i \in 1..Len(result.file_analyses) :
        \A k \in 1..Len(result.file_analyses[i].test_methods) :
            LET tm == result.file_analyses[i].test_methods[k]
            IN  1 <= tm.line_number
                /\ tm.line_number <= ScannedOf(result.file_analyses[i].file_path).nlines

\* C9 (amended): the line number of a TestMethod is the number grep printed
\* before the candidate, which is a line of the file, and 0 for a candidate that
\* has no number before a ':'.
C9_LineNumbers ==
    \A i \in 1..Len(file_analyses) :
        \A k \in 1..Len(file_analyses[i].test_methods) :
            LET tm == file_analyses[i].test_methods[k]
                sc == ScannedOf(file_analyses[i].file_path)
                c == sc.candidates[k]
            IN  IF Len(c) >= 2 /\ \E n \in 1..sc.nlines : c[1] = Numerals[n] /\ c[2] = ":"
                THEN /\ 1 <= tm.line_number /\ tm.line_number <= sc.nlines
                     /\ c[1] = Numerals[tm.line_number]
                ELSE tm.line_number = 0 /\ \A h \in 1..Len(c) : c[h] # ":"

\* A final result with a TestMethod of line number 0 and one of a line number >= 1.
C9_Witness ==
    /\ pc = "done"
    /\ \E tm \in AllMethods(result.file_analyses) : tm.line_number = 0
    /\ \E tm \in AllMethods(result.file_analyses) : tm.line_number > 1

\* C10: in the final result a path has a FileAnalysis exactly when it was
\* listed, exists and has a candidate, a FileAnalysis has total_tests >= 1,
\* total_files_analyzed counts the listed paths that exist, with or without
\* candidates, and is at least the number of FileAnalyses.
C10_FilesAccounted ==
    pc = "done" =>
        /\ \A p \in {<<q>> : q \in 1..MaxFiles} :
             (\E i \in 1..Len(result.file_analyses) : result.file_analyses[i].file_path = p)
                <=> (/\ \E i \in 1..Len(files) : files[i] = p
                     /\ p \in existing
                     /\ WasScanned(p)
                     /\ Len(ScannedOf(p).candidates) >= 1)
        /\ \A i, j \in 1..Len(result.file_analyses) :
             result.file_analyses[i].file_path = result.file_analyses[j].file_path => i = j
        /\ \A i \in 1..Len(result.file_analyses) : result.file_analyses[i].total_tests >= 1
        /\ \A p \in existing : WasScanned(p)
        /\ result.total_files_analyzed = Len(scanned)
        /\ result.total_files_analyzed >= Len(result.file_analyses)

\* Two existing files, one without candidates: counted but not in file_analyses.
C10_Witness ==
    /\ pc = "done"
    /\ result.total_files_analyzed = 2
    /\ Len(result.file_analyses) = 1

\* C11: when find prints nothing (no file matches), list_files returns the empty
\* list, no file is grepped and analyze_test_with_agent is never called, main
\* does not raise and goes from the loop straight to the result, and the result
\* has total_files_analyzed = 0, file_analyses = [], total_tests_found = 0 and
\* a summary that is not empty.
C11_EmptyListing ==
    (pc # "start" /\ arg = <<>>) =>
        /\ files = <<>>
        /\ scanned = <<>>
        /\ calls = 0 /\ last = NoCall
        /\ pc \in {"loop", "done"}
        /\ pc = "loop" => idx > Len(files)
        /\ pc = "done" =>
              /\ result.total_files_analyzed = 0
              /\ result.file_analyses = <<>>
              /\ result.total_tests_found = 0
              /\ result.summary # <<>>
              /\ result.summary # NoResult.summary

\* The run on a repository without a matching file has ended.
C11_Witness ==
    /\ pc = "done"
    /\ arg = <<>>
    /\ result.total_files_analyzed = 0
    /\ result.summary[2] = 0

\* C12: every FileAnalysis main constructs, in file_analyses while the loop runs
\* and in the final result, has total_tests equal to the length of its
\* test_methods.
C12_TotalTestsIsLength ==
    /\ \A i \in 1..Len(file_analyses) :
         file_analyses[i].total_tests = Len(file_analyses[i].test_methods)
    /\ \A i \in 1..Len(result.file_analyses) :
         result.file_analyses[i].total_tests = Len(result.file_analyses[i].test_methods)

\* A FileAnalysis has just been constructed for a file that had more candidates
\* than the three that were analyzed.
C12_Witness ==
    /\ pc = "loop"
    /\ \E i \in 1..Len(file_analyses) :
         /\ file_analyses[i].total_tests = DemoLimit
         /\ Len(file_analyses[i].test_methods) = DemoLimit
         /\ Len(ScannedOf(file_analyses[i].file_path).candidates) > DemoLimit

\* ---- find_files, under SpecFind
\* C13: for an existing directory and an allow-listed pattern, find_files returns
\* without error the paths of exactly the regular files of the directory whose
\* name matches the pattern, as find without the quoting of the arguments does.
C13_FindFilesAsStated ==
    (pc = "found" /\ PathKind(arg.path) = "dir" /\ arg.name_pattern \in AllowedPatterns) =>
        /\ ret.error = ""
        /\ ret.paths = FindLines(arg.path, arg.name_pattern, arg.entries, 1)

\* ---- the menu loop, under SpecMenu
\* What the claim says of the iterations that do not end the loop: an exception
\* of the agent in option 1 or 2 (as every outcome of the call) leads back to
\* the menu prompt; so do an empty repository path, an empty chat input and a
\* choice that is not 1, 2 or 3, none of them with a call of the agent; the
\* agent is called only with a text that is not empty.
ReturnsToMenu ==
    /\ pc \in {"extract", "answer"} => (pc' = "menu" /\ ret'.invoked = ret.invoked + 1)
    /\ (pc \in {"repo", "chat"} /\ ret'.event # "eof" /\ ret'.text = <<>>) =>
           (pc' = "menu" /\ ret'.invoked = ret.invoked)
    /\ (pc = "menu" /\ ret'.event # "eof" /\ ret'.choice \notin {<<"1">>, <<"2">>, <<"3">>}) =>
           (pc' = "menu" /\ ret'.invoked = ret.invoked)
    /\ ret'.invoked # ret.invoked => (pc \in {"extract", "answer"} /\ ret.text # <<>>)

\* C14 as stated: once the agent is created, main leaves the loop only by the
\* choice of option 3, and the listed cases lead back to the menu prompt.
C14_ExitsOnlyByOptionThree ==
    [][/\ (pc # "create" /\ pc' \in {"exited", "failed", "raised"}) =>
              (pc = "menu" /\ ret'.choice = <<"3">> /\ ret'.event = "goodbye")
       /\ ReturnsToMenu]_vars

\* C14: once the agent is created, main leaves the loop by the break of option 3
\* or by the EOFError of an input() at the end of the input, which nothing
\* catches, and in no other way; the listed cases lead back to the menu prompt,
\* without a call of the agent on an empty repository path or chat input.
C14_MenuLoop ==
    [][/\ (pc # "create" /\ pc' = "exited") =>
              (pc = "menu" /\ ret'.choice = <<"3">> /\ ret'.event = "goodbye")
       /\ pc' = "raised" => (pc \in {"menu", "repo", "chat"} /\ ret'.event = "eof")
       /\ pc' = "failed" => pc = "create"
       /\ ReturnsToMenu]_vars

\* The agent raised in option 2 and main is back at the menu prompt.
C14_Witness ==
    /\ pc = "menu"
    /\ ret.choice = <<"2">>
    /\ ret.event = "chat_error"
    /\ ret.invoked >= 1

====
